---- MODULE Spec2Model ----
(***************************************************************************)
(* A model of twitter_bookmark_scrapper.py: main, interactive_login,       *)
(* collect_bookmarks with its scroll loop and article-fetch phase, the     *)
(* SIGINT handlers both functions install, _parse_tweet and _build_rows    *)
(* with expand_urls_parallel.                                              *)
(*                                                                         *)
(* Spec       main driving interactive_login and collect_bookmarks         *)
(* SpecParse  _parse_tweet applied to bounded feed items                   *)
(* SpecExport _build_rows / expand_urls_parallel on bounded record lists   *)
(*                                                                         *)
(* Python strings are TLA+ strings; "" is the empty (falsy) string.        *)
(***************************************************************************)
EXTENDS Integers, Sequences, FiniteSets, TLC

VARIABLES
    \* ---- process -------------------------------------------------------
    pc,               \* position of the main thread
    args,             \* parsed command line (argparse namespace)
    feed,             \* the dicts _parse_tweet can return in this run
    has_session,      \* os.path.exists(auth_file) at line 413
    exitStatus,       \* -1 while running, else the process exit status
    exitCause,        \* how the process ended
    handler,          \* SIGINT handler installed: "default", "login", "scroll"
    original_handler, \* value saved by signal.getsignal
    signals,          \* SIGINTs delivered so far
    session_saved,    \* context.storage_state(path=auth_file) has written
    \* ---- interactive_login ---------------------------------------------
    loginSite,        \* 0, or the step of main that called (1 or 3)
    loginCalls,       \* calls of interactive_login so far
    stop_flag,
    logged_in,
    ok,               \* main's ok: "unset", TRUE, FALSE
    login_failed,     \* history: some interactive_login returned False
    urls,             \* the location.href values of the last poll
    detected,         \* history of this login: "no", "seen", "saved", "save_failed"
    \* ---- collect_bookmarks ---------------------------------------------
    collectCalls,     \* calls of collect_bookmarks so far
    bookmarks,
    seen_ids,
    stop_scrolling,
    scroll_idx,
    no_new_count,
    new_this_round,
    articles,         \* element handles of this pass not yet visited
    tweet,            \* result of _parse_tweet for the current handle
    article_bookmarks,\* indices into bookmarks still to fetch
    fetch_text,       \* fetch_article_content's text
    ap_open,          \* the auxiliary view of the running fetch is open
    open_views,       \* auxiliary views open in the browser context
    main_bookmarks,   \* main's bookmarks: "unset" or the returned list
    \* ---- history of the run --------------------------------------------
    expired,          \* calls of collect_bookmarks that met the login wall
    first_empty,      \* the first collect_bookmarks returned []
    last_new_pass,    \* scroll_idx of the last pass with a new item
    completed,        \* Len(bookmarks) at the end of the last finished pass
    cancel_pc,        \* phase in which the first SIGINT reached _stop_handler
    cancel_prior,     \* records of finished passes at that moment
    firstNoUrl,       \* 80-char prefix -> first parsed item without tweet_url
    skipped,          \* _parse_tweet raised for a handle of this pass
    loop_exit,        \* why the scroll loop ended
    \* ---- _parse_tweet (SpecParse) --------------------------------------
    p_pc, art, raw_urls, article_url, hrefs, parsed,
    \* ---- _build_rows (SpecExport) --------------------------------------
    e_pc,             \* position of _build_rows
    e_bookmarks,      \* its argument: records with their urls_raw
    resolver,         \* what requests.head does for each URL: a final URL or RAISE
    all_tco,          \* the argument of expand_urls_parallel
    futures,          \* submitted URL -> state and result of its future
    mapping,          \* expand_urls_parallel's mapping
    url_map,
    csv_rows,
    jsonl_rows

procVars    == <<pc, args, feed, has_session, exitStatus, exitCause, handler,
                 original_handler, signals, session_saved>>
loginVars   == <<loginSite, loginCalls, stop_flag, logged_in, ok, login_failed,
                 urls, detected>>
collectVars == <<collectCalls, bookmarks, seen_ids, stop_scrolling, scroll_idx,
                 no_new_count, new_this_round, articles, tweet,
                 article_bookmarks, fetch_text, ap_open, open_views,
                 main_bookmarks>>
histVars    == <<expired, first_empty, last_new_pass, completed, cancel_pc,
                 cancel_prior, firstNoUrl, skipped, loop_exit>>
mainVars    == <<procVars, loginVars, collectVars, histVars>>
parseVars   == <<p_pc, art, raw_urls, article_url, hrefs, parsed>>
exportVars  == <<e_pc, e_bookmarks, resolver, all_tco, futures, mapping, url_map, csv_rows,
                 jsonl_rows>>
vars        == <<mainVars, parseVars, exportVars>>

(***************************************************************************)
(* Bounds of the model.                                                    *)
(***************************************************************************)
MaxScrolls == 6     \* largest --max-scrolls tried
MaxItems   == 2     \* most element handles a pass enumerates
MaxSignals == 2     \* most SIGINTs delivered in a run
MaxRecords == 2     \* most records handed to _build_rows
MaxAnchors == 2     \* most outbound anchors of a parsed item

(***************************************************************************)
(* Strings.                                                                *)
(***************************************************************************)
\* Python: sub in s
Contains(sub, s) ==
    \E i \in 1..(Len(s) - Len(sub) + 1) : SubSeq(s, i, i + Len(sub) - 1) = sub

\* Python: s.endswith(suf)
EndsWith(s, suf) ==
    Len(s) >= Len(suf) /\ SubSeq(s, Len(s) - Len(suf) + 1, Len(s)) = suf

\* Python: s[:n]
Slice(s, n) == IF Len(s) <= n THEN s ELSE SubSeq(s, 1, n)

\* Python: a or b, on strings
Or(a, b) == IF a # "" THEN a ELSE b

IsPrefix(s, t) == Len(s) <= Len(t) /\ SubSeq(t, 1, Len(s)) = s

LOGIN_SLUGS == {"x.com/login", "x.com/i/flow", "x.com/account/"}

_is_login_page(url) == \E slug \in LOGIN_SLUGS : Contains(slug, url)


(***************************************************************************)
(* What the browser can show.                                              *)
(***************************************************************************)
BOOKMARKS_URL == "https://x.com/i/bookmarks"
LOGIN_URL     == "https://x.com/login"
FLOW_URL      == "https://x.com/i/flow/login?redirect_after_login=%2Fi%2Fbookmarks"
HOME_URL      == "https://x.com/home"

\* location.href after navigating to the bookmarks view
NavUrls  == {BOOKMARKS_URL, FLOW_URL}
\* location.href of the open views while the user logs in
PollUrls == {LOGIN_URL, HOME_URL}

U1  == "https://x.com/ann/status/1"
ART == "https://x.com/i/articles/7"
Prefix80 ==
    "Thread: ten lessons learned from running a formal methods reading group at work "
T1 == Prefix80 \o "(1/2)"
T2 == Prefix80 \o "(2/2)"

Tweet(u, t, a) ==
    [tweet_url |-> u, text |-> t, article_url |-> a, article_text |-> ""]

\* The dicts _parse_tweet returns for the handles of a feed, in the fields
\* collect_bookmarks reads.
Tweets == {
    Tweet(U1, "gm", ""),      \* permalink
    Tweet(U1, T1, ART),       \* same permalink, other text, with an article
    Tweet("", T1, ""),        \* no permalink, long text
    Tweet("", T2, ""),        \* no permalink, same first 80 characters
    Tweet("", "", ART),       \* neither permalink nor text, with an article
    Tweet("", U1, "") }       \* no permalink, the text is a permalink

\* A feed of one post with a permalink and one with only an article
SmallFeed == {Tweet(U1, "gm", ""), Tweet("", "", ART)}

NoTweet == [tweet_url |-> "-", text |-> "-", article_url |-> "-", article_text |-> "-"]

\* inner_text() of an article body
Bodies == {"", " Long read\n"}

ScrollChoices == {0, 1, MaxScrolls}

Whitespace == {" ", "\n", "\t"}

\* Python: s.strip()
RECURSIVE Strip(_)
Strip(s) ==
    IF s = "" THEN ""
    ELSE IF SubSeq(s, 1, 1) \in Whitespace THEN Strip(SubSeq(s, 2, Len(s)))
    ELSE IF SubSeq(s, Len(s), Len(s)) \in Whitespace THEN Strip(SubSeq(s, 1, Len(s) - 1))
    ELSE s

(***************************************************************************)
(* Process exit.                                                           *)
(***************************************************************************)
Running == exitStatus = -1

\* The interpreter ends with `status`; a finally clause on the way out has
\* restored `h` as the SIGINT handler.
Exit(status, cause, h) ==
    /\ pc' = "exited"
    /\ exitStatus' = status
    /\ exitCause' = cause
    /\ handler' = h

\* Positions inside the try ... finally of interactive_login (113-149)
LoginTry   == {"login_poll", "login_body", "login_save"}
\* Positions inside the try ... finally of collect_bookmarks (238-285)
ScrollPcs  == {"loop_top", "query", "for_art", "dedup", "pass_end", "scroll"}
FetchPcs   == {"fetch_start", "fetch_loop", "fetch_new_page", "fetch_goto",
               "fetch_body", "fetch_close"}
CollectTry == ScrollPcs \cup FetchPcs
CollectPcs == {"nav", "wait", "finally", "collect_return"} \cup CollectTry
LoginPcs   == {"login_goto", "login_finally", "login_partial", "login_return"}
                  \cup LoginTry

\* A try statement without its finally clause: the handler stays
Unwound_NoFinally == handler

\* The handler in effect once an exception raised at pc has left its function
Unwound == IF pc \in LoginTry \cup CollectTry THEN original_handler ELSE handler

\* An exception that nothing catches leaves main: traceback, status 1
Uncaught == Exit(1, "Exception", Unwound)


(***************************************************************************)
(* SIGINT.  signal.signal installs a Python-level handler that runs in the *)
(* main thread between two of its steps.                                   *)
(***************************************************************************)
\* KeyboardInterrupt from the default handler: no except clause of the
\* program catches it (they catch Exception), the interpreter dies of it.
DefaultInt ==
    /\ handler = "default"
    /\ Exit(130, "KeyboardInterrupt", handler)
    /\ UNCHANGED <<stop_flag, stop_scrolling, cancel_pc, cancel_prior>>

\* _sigint_handler of interactive_login
_sigint_handler ==
    /\ handler = "login"
    /\ IF stop_flag
       THEN /\ Exit(1, "SystemExit", Unwound)
            /\ UNCHANGED stop_flag
            /\ UNCHANGED cancel_pc
       ELSE /\ stop_flag' = TRUE
            /\ cancel_pc' = IF detected = "no" THEN "login_before" ELSE "login_after"
            /\ UNCHANGED <<pc, exitStatus, exitCause, handler>>
    /\ UNCHANGED <<stop_scrolling, cancel_prior>>

\* _stop_handler of collect_bookmarks
_stop_handler ==
    /\ handler = "scroll"
    /\ IF stop_scrolling
       THEN /\ Exit(1, "SystemExit", Unwound)
            /\ UNCHANGED <<stop_scrolling, cancel_pc, cancel_prior>>
       ELSE /\ stop_scrolling' = TRUE
            /\ cancel_pc' = IF pc \in ScrollPcs /\ scroll_idx >= 1 THEN "scroll"
                            ELSE IF pc \in ScrollPcs THEN "start" ELSE "fetch"
            /\ cancel_prior' = SubSeq(bookmarks, 1, completed)
            /\ UNCHANGED <<pc, exitStatus, exitCause, handler>>
    /\ UNCHANGED stop_flag

Sigint ==
    /\ Running
    /\ signals < MaxSignals
    /\ signals' = signals + 1
    /\ DefaultInt \/ _sigint_handler \/ _stop_handler
    /\ UNCHANGED <<args, feed, has_session, original_handler, session_saved>>
    /\ UNCHANGED <<loginSite, loginCalls, logged_in, ok, login_failed, urls,
                   detected>>
    /\ UNCHANGED <<collectCalls, bookmarks, seen_ids, scroll_idx, no_new_count,
                   new_this_round, articles, tweet, article_bookmarks,
                   fetch_text, ap_open, open_views, main_bookmarks>>
    /\ UNCHANGED <<expired, first_empty, last_new_pass, completed, firstNoUrl, skipped,
                   loop_exit>>
    /\ UNCHANGED <<parseVars, exportVars>>

(***************************************************************************)
(* Calls made by main.                                                     *)
(***************************************************************************)
\* ok = interactive_login(context, args.auth_file)
CallLogin(site) ==
    /\ pc' = "login_goto"
    /\ loginSite' = site
    /\ loginCalls' = loginCalls + 1
    /\ urls' = {}
    /\ detected' = "no"
    /\ UNCHANGED <<stop_flag, logged_in, ok, login_failed>>
    /\ UNCHANGED <<exitStatus, exitCause, handler>>
    /\ cancel_pc' = "none"
    /\ UNCHANGED collectVars
    /\ UNCHANGED <<expired, first_empty, last_new_pass, completed, cancel_prior,
                   firstNoUrl, skipped, loop_exit>>

\* bookmarks = collect_bookmarks(page, ...): lines 190-191 on entry
CallCollect ==
    /\ pc' = "nav"
    /\ collectCalls' = collectCalls + 1
    /\ bookmarks' = << >>
    /\ seen_ids' = {}
    /\ firstNoUrl' = << >>
    /\ skipped' = FALSE
    /\ completed' = 0
    /\ last_new_pass' = 0
    /\ cancel_pc' = "none"
    /\ cancel_prior' = << >>
    /\ loop_exit' = "none"
    /\ UNCHANGED <<stop_scrolling, scroll_idx, no_new_count, new_this_round,
                   articles, tweet, article_bookmarks, fetch_text, ap_open,
                   open_views, main_bookmarks>>
    /\ UNCHANGED <<expired, first_empty>>
    /\ UNCHANGED <<exitStatus, exitCause, handler>>
    /\ UNCHANGED loginVars

SysExit(status) ==
    /\ Exit(status, "sys.exit", handler)
    /\ UNCHANGED <<loginVars, collectVars, histVars>>

(***************************************************************************)
(* main                                                                    *)
(***************************************************************************)
need_login == ~has_session /\ ~args.headless

\* Step 1 of main
Main ==
    /\ pc = "main" /\ Running
    /\ IF need_login \/ args.save_auth_only
       THEN CallLogin(1)
       ELSE IF args.headless /\ ~has_session
       THEN SysExit(1)
       ELSE CallCollect
    /\ UNCHANGED <<args, feed, has_session, original_handler, signals, session_saved>>
    /\ UNCHANGED <<parseVars, exportVars>>

\* main after the login of step 1
AfterLogin1 ==
    /\ pc = "after_login1" /\ Running
    /\ IF ok # TRUE
       THEN SysExit(1)
       ELSE IF args.save_auth_only
       THEN SysExit(0)
       ELSE CallCollect
    /\ UNCHANGED <<args, feed, has_session, original_handler, signals, session_saved>>
    /\ UNCHANGED <<parseVars, exportVars>>

\* A retry that does not look at --headless
Retry_AnyMode == main_bookmarks = << >>

\* Line 458: if not bookmarks and not args.headless
Retry == main_bookmarks = << >> /\ ~args.headless

\* Step 3 of main: the scrape came back empty and the run is not headless
Step3 ==
    /\ pc = "step3" /\ Running
    /\ IF Retry
       THEN CallLogin(3)
       ELSE /\ pc' = "close"
            /\ UNCHANGED <<exitStatus, exitCause, handler>>
            /\ UNCHANGED <<loginVars, collectVars, histVars>>
    /\ UNCHANGED <<args, feed, has_session, original_handler, signals, session_saved>>
    /\ UNCHANGED <<parseVars, exportVars>>

\* main after the login of step 3
AfterLogin3 ==
    /\ pc = "after_login3" /\ Running
    /\ IF ok = TRUE
       THEN CallCollect
       ELSE /\ pc' = "close"
            /\ UNCHANGED <<exitStatus, exitCause, handler>>
            /\ UNCHANGED <<loginVars, collectVars, histVars>>
    /\ UNCHANGED <<args, feed, has_session, original_handler, signals, session_saved>>
    /\ UNCHANGED <<parseVars, exportVars>>

\* context.close(); browser.close(); the "No bookmarks collected" return
Close ==
    /\ pc = "close" /\ Running
    /\ IF main_bookmarks = << >>
       THEN Exit(0, "return", handler)
       ELSE /\ pc' = "save"
            /\ UNCHANGED <<exitStatus, exitCause, handler>>
    /\ UNCHANGED <<args, feed, has_session, original_handler, signals, session_saved>>
    /\ UNCHANGED <<loginVars, collectVars, histVars>>
    /\ UNCHANGED <<parseVars, exportVars>>

\* save_output(bookmarks, stem, args.fmt): the files are written or open/write
\* raises OSError, which nothing catches
SaveOutput ==
    /\ pc = "save" /\ Running
    /\ \/ Exit(0, "return", handler)
       \/ Uncaught
    /\ UNCHANGED <<args, feed, has_session, original_handler, signals, session_saved>>
    /\ UNCHANGED <<loginVars, collectVars, histVars>>
    /\ UNCHANGED <<parseVars, exportVars>>

(***************************************************************************)
(* interactive_login                                                       *)
(***************************************************************************)
\* Lines 93-112: navigate to the login page, install _sigint_handler
LoginGoto ==
    /\ pc = "login_goto" /\ Running
    /\ \/ /\ pc' = "login_poll"
          /\ stop_flag' = FALSE
          /\ original_handler' = handler
          /\ handler' = "login"
          /\ logged_in' = FALSE
          /\ UNCHANGED <<exitStatus, exitCause>>
       \/ /\ Uncaught
          /\ UNCHANGED <<stop_flag, original_handler, logged_in>>
    /\ UNCHANGED <<args, feed, has_session, signals, session_saved>>
    /\ UNCHANGED <<loginSite, loginCalls, ok, login_failed, urls, detected>>
    /\ UNCHANGED <<collectVars, histVars, parseVars, exportVars>>

\* A test that wants every open view outside the login wall
Detected_All(us) == us # {} /\ \A u \in us : ~_is_login_page(u)

\* Line 133: any(not _is_login_page(u) for u in urls)
Detected(us) == \E u \in us : ~_is_login_page(u)

\* A loop that never reads the flag
LoopOn_Always(flag) == TRUE

\* Line 114: while not stop_flag
LoopOn(flag) == ~flag

\* Line 114: the test of the poll loop
LoginWhile ==
    /\ pc = "login_poll" /\ Running
    /\ pc' = IF LoopOn(stop_flag) THEN "login_body" ELSE "login_finally"
    /\ UNCHANGED <<args, feed, has_session, exitStatus, exitCause, handler,
                   original_handler, signals, session_saved>>
    /\ UNCHANGED <<loginVars, collectVars, histVars, parseVars, exportVars>>

\* Lines 115-144: one turn of the poll loop.  pages: context.pages is not
\* empty; hrefs_read: the location.href values the evaluations returned.
LoginPoll ==
    /\ pc = "login_body" /\ Running
    /\ \E pages \in BOOLEAN, hrefs_read \in SUBSET PollUrls :
          \/ /\ ~pages                           \* line 116: break
             /\ pc' = "login_finally"
             /\ UNCHANGED <<logged_in, urls, detected>>
          \/ /\ pages                            \* line 133
             /\ urls' = hrefs_read
             /\ Detected(hrefs_read)
             /\ logged_in' = TRUE
             /\ detected' = "seen"
             /\ pc' = "login_save"
          \/ /\ pages                            \* line 144: sleep, poll again
             /\ urls' = hrefs_read
             /\ ~Detected(hrefs_read)
             /\ pc' = "login_poll"
             /\ UNCHANGED <<logged_in, detected>>
          \/ /\ pc' = "login_finally"           \* line 146: the browser raised
             /\ UNCHANGED <<logged_in, urls, detected>>
    /\ UNCHANGED <<args, feed, has_session, exitStatus, exitCause, handler,
                   original_handler, signals, session_saved>>
    /\ UNCHANGED <<loginSite, loginCalls, stop_flag, ok, login_failed>>
    /\ UNCHANGED <<collectVars, histVars, parseVars, exportVars>>

\* Lines 136-142: persist the session on detection
LoginSave ==
    /\ pc = "login_save" /\ Running
    /\ \/ /\ session_saved' = TRUE
          /\ detected' = "saved"
          /\ UNCHANGED logged_in
       \/ /\ logged_in' = FALSE                \* storage_state raised
          /\ detected' = "save_failed"
          /\ UNCHANGED session_saved
    /\ pc' = "login_finally"
    /\ UNCHANGED <<args, feed, has_session, exitStatus, exitCause, handler,
                   original_handler, signals>>
    /\ UNCHANGED <<loginSite, loginCalls, stop_flag, ok, login_failed, urls>>
    /\ UNCHANGED <<collectVars, histVars, parseVars, exportVars>>

\* Lines 148-151: restore the handler, choose the partial save
LoginFinally ==
    /\ pc = "login_finally" /\ Running
    /\ handler' = original_handler
    /\ pc' = IF ~logged_in /\ stop_flag THEN "login_partial" ELSE "login_return"
    /\ UNCHANGED <<args, feed, has_session, exitStatus, exitCause,
                   original_handler, signals, session_saved>>
    /\ UNCHANGED <<loginVars, collectVars, histVars, parseVars, exportVars>>

\* Lines 153-157: Ctrl+C before login, save whatever session there is
LoginPartial ==
    /\ pc = "login_partial" /\ Running
    /\ \/ session_saved' = TRUE
       \/ UNCHANGED session_saved
    /\ pc' = "login_return"
    /\ UNCHANGED <<args, feed, has_session, exitStatus, exitCause, handler,
                   original_handler, signals>>
    /\ UNCHANGED <<loginVars, collectVars, histVars, parseVars, exportVars>>

\* Line 159: return logged_in, assigned to main's ok
LoginReturn ==
    /\ pc = "login_return" /\ Running
    /\ ok' = logged_in
    /\ login_failed' = (login_failed \/ ~logged_in)
    /\ pc' = IF loginSite = 1 THEN "after_login1" ELSE "after_login3"
    /\ UNCHANGED <<args, feed, has_session, exitStatus, exitCause, handler,
                   original_handler, signals, session_saved>>
    /\ urls' = {}                             \* the frame of the call is gone
    /\ UNCHANGED <<loginSite, loginCalls, stop_flag, logged_in, detected>>
    /\ UNCHANGED <<collectVars, histVars, parseVars, exportVars>>


(***************************************************************************)
(* collect_bookmarks                                                       *)
(***************************************************************************)
procFrame == UNCHANGED <<args, feed, has_session, signals, session_saved>>

\* return [] before the handler is installed (lines 205, 218, 222)
ReturnEmpty(wall) ==
    /\ pc' = "collect_return"
    /\ expired' = IF wall THEN expired \cup {collectCalls} ELSE expired

\* Lines 193-205: navigate, read the effective location, check the login wall
Nav ==
    /\ pc = "nav" /\ Running
    /\ \/ /\ \E real_url \in NavUrls :
               IF _is_login_page(real_url)
               THEN ReturnEmpty(TRUE)
               ELSE pc' = "wait" /\ UNCHANGED expired
          /\ UNCHANGED <<exitStatus, exitCause, handler>>
       \/ /\ Uncaught                           \* page.goto raised
          /\ UNCHANGED expired
    /\ procFrame
    /\ UNCHANGED <<original_handler, loginVars, collectVars>>
    /\ UNCHANGED <<first_empty, last_new_pass, completed, cancel_pc,
                   cancel_prior, firstNoUrl, skipped, loop_exit>>
    /\ UNCHANGED <<parseVars, exportVars>>

\* Lines 207-240: wait for the first feed item; on success install
\* _stop_handler and enter the try block
Wait ==
    /\ pc = "wait" /\ Running
    /\ \/ /\ pc' = "loop_top"
          /\ stop_scrolling' = FALSE
          /\ original_handler' = handler
          /\ handler' = "scroll"
          /\ no_new_count' = 0
          /\ scroll_idx' = 0
          /\ UNCHANGED expired
       \/ /\ \E real_url \in NavUrls :          \* PlaywrightTimeout
               ReturnEmpty(_is_login_page(real_url))
          /\ UNCHANGED <<stop_scrolling, original_handler, handler,
                         no_new_count, scroll_idx>>
       \/ /\ ReturnEmpty(FALSE)                 \* any other exception
          /\ UNCHANGED <<stop_scrolling, original_handler, handler,
                         no_new_count, scroll_idx>>
    /\ procFrame
    /\ UNCHANGED <<exitStatus, exitCause, loginVars>>
    /\ UNCHANGED <<collectCalls, bookmarks, seen_ids, new_this_round, articles,
                   tweet, article_bookmarks, fetch_text, ap_open, open_views,
                   main_bookmarks>>
    /\ UNCHANGED <<first_empty, last_new_pass, completed, cancel_pc,
                   cancel_prior, firstNoUrl, skipped, loop_exit>>
    /\ UNCHANGED <<parseVars, exportVars>>

\* Lines 241-243: the for statement takes the next scroll_idx of
\* range(1, max_scrolls + 1), then the cancellation flag is checked
LoopTop ==
    /\ pc = "loop_top" /\ Running
    /\ IF scroll_idx >= args.max_scrolls
       THEN /\ loop_exit' = "range"
            /\ pc' = "fetch_start"
            /\ UNCHANGED scroll_idx
       ELSE /\ scroll_idx' = scroll_idx + 1
            /\ IF stop_scrolling
               THEN loop_exit' = "cancel" /\ pc' = "fetch_start"
               ELSE pc' = "query" /\ UNCHANGED loop_exit
    /\ procFrame
    /\ UNCHANGED <<exitStatus, exitCause, handler, original_handler, loginVars>>
    /\ UNCHANGED <<collectCalls, bookmarks, seen_ids, stop_scrolling,
                   no_new_count, new_this_round, articles, tweet,
                   article_bookmarks, fetch_text, ap_open, open_views,
                   main_bookmarks>>
    /\ UNCHANGED <<expired, first_empty, last_new_pass, completed, cancel_pc,
                   cancel_prior, firstNoUrl, skipped>>
    /\ UNCHANGED <<parseVars, exportVars>>

\* Lines 245-246: enumerate the rendered feed items
Query ==
    /\ pc = "query" /\ Running
    /\ \/ /\ \E n \in 0..MaxItems : articles' = n
          /\ new_this_round' = 0
          /\ pc' = "for_art"
          /\ UNCHANGED <<exitStatus, exitCause, handler>>
       \/ /\ Uncaught                           \* query_selector_all raised
          /\ UNCHANGED <<articles, new_this_round>>
    /\ procFrame
    /\ UNCHANGED <<original_handler, loginVars>>
    /\ UNCHANGED <<collectCalls, bookmarks, seen_ids, stop_scrolling, scroll_idx,
                   no_new_count, tweet, article_bookmarks, fetch_text, ap_open,
                   open_views, main_bookmarks>>
    /\ UNCHANGED <<histVars, parseVars, exportVars>>

\* A handler that leaves the for statement
Continue_Break == "pass_end"

\* Line 252: continue, the for statement takes the next handle
Continue == "for_art"

\* Lines 247-252: the next handle is parsed; a handle that does not parse
\* is skipped
ForArt ==
    /\ pc = "for_art" /\ Running
    /\ IF articles = 0
       THEN pc' = "pass_end" /\ UNCHANGED <<articles, tweet, skipped>>
       ELSE /\ articles' = articles - 1
            /\ \/ \E t \in feed :
                     /\ tweet' = t
                     /\ UNCHANGED skipped
                     /\ pc' = "dedup"
               \/ /\ skipped' = TRUE           \* except Exception
                  /\ pc' = Continue
                  /\ UNCHANGED tweet
    /\ procFrame
    /\ UNCHANGED <<exitStatus, exitCause, handler, original_handler, loginVars>>
    /\ UNCHANGED <<collectCalls, bookmarks, seen_ids, stop_scrolling, scroll_idx,
                   no_new_count, new_this_round, article_bookmarks, fetch_text,
                   ap_open, open_views, main_bookmarks>>
    /\ UNCHANGED <<expired, first_empty, last_new_pass, completed, cancel_pc,
                   cancel_prior, firstNoUrl, loop_exit>>
    /\ UNCHANGED <<parseVars, exportVars>>

\* A key on the text before the permalink
Tid_TextFirst(tw) == Or(Slice(tw.text, 80), tw.tweet_url)

\* A key on the whole text
Tid_WholeText(tw) == Or(tw.tweet_url, tw.text)

\* Line 253: the dedup key
Tid(tw) == Or(tw.tweet_url, Slice(tw.text, 80))

\* A new record put first
Collected_Prepend(bs, tw) == <<tw>> \o bs

\* Line 257: bookmarks.append(tweet)
Collected(bs, tw) == Append(bs, tw)

\* A counter that a pass with new items leaves alone
StaleCount_NoReset(new, count) == IF new # 0 THEN count ELSE count + 1

\* Lines 260-267: the stale-pass counter after a pass with `new` new items
StaleCount(new, count) == IF new # 0 THEN 0 ELSE count + 1

\* History: the first item without tweet_url parsed under each 80-char prefix
NoteNoUrl(tw) ==
    LET p == Slice(tw.text, 80) IN
    IF tw.tweet_url = "" /\ p \notin DOMAIN firstNoUrl
    THEN [k \in DOMAIN firstNoUrl \cup {p} |->
             IF k \in DOMAIN firstNoUrl THEN firstNoUrl[k] ELSE tw]
    ELSE firstNoUrl

\* A key that is never recorded
Seen_Forgotten(ids, tid) == ids

\* Line 256: seen_ids.add(tid)
Seen(ids, tid) == ids \cup {tid}

\* Lines 253-258: skip a seen key, else record the key and append
Dedup ==
    /\ pc = "dedup" /\ Running
    /\ IF Tid(tweet) \in seen_ids
       THEN UNCHANGED <<seen_ids, bookmarks, new_this_round>>
       ELSE /\ seen_ids' = Seen(seen_ids, Tid(tweet))
            /\ bookmarks' = Collected(bookmarks, tweet)
            /\ new_this_round' = new_this_round + 1
    /\ firstNoUrl' = NoteNoUrl(tweet)
    /\ pc' = "for_art"
    /\ procFrame
    /\ UNCHANGED <<exitStatus, exitCause, handler, original_handler, loginVars>>
    /\ UNCHANGED <<collectCalls, stop_scrolling, scroll_idx, no_new_count,
                   articles, tweet, article_bookmarks, fetch_text, ap_open, open_views,
                   main_bookmarks>>
    /\ UNCHANGED <<expired, first_empty, last_new_pass, completed, cancel_pc,
                   cancel_prior, skipped, loop_exit>>
    /\ UNCHANGED <<parseVars, exportVars>>

\* Lines 260-270: the stale-pass counter
PassEnd ==
    /\ pc = "pass_end" /\ Running
    /\ completed' = Len(bookmarks)
    /\ tweet' = NoTweet
    /\ no_new_count' = StaleCount(new_this_round, no_new_count)
    /\ last_new_pass' = IF new_this_round # 0 THEN scroll_idx ELSE last_new_pass
    /\ IF new_this_round = 0 /\ no_new_count' >= 5
       THEN loop_exit' = "stale" /\ pc' = "fetch_start"
       ELSE pc' = "scroll" /\ UNCHANGED loop_exit
    /\ procFrame
    /\ UNCHANGED <<exitStatus, exitCause, handler, original_handler, loginVars>>
    /\ UNCHANGED <<collectCalls, bookmarks, seen_ids, stop_scrolling, scroll_idx,
                   new_this_round, articles, article_bookmarks,
                   fetch_text, ap_open, open_views, main_bookmarks>>
    /\ skipped' = FALSE
    /\ UNCHANGED <<expired, first_empty, cancel_pc, cancel_prior, firstNoUrl>>
    /\ UNCHANGED <<parseVars, exportVars>>

\* Lines 272-273: scroll two viewports and sleep scroll_delay
Scroll ==
    /\ pc = "scroll" /\ Running
    /\ \/ /\ pc' = "loop_top"
          /\ UNCHANGED <<exitStatus, exitCause, handler>>
       \/ Uncaught                              \* page.evaluate raised
    /\ procFrame
    /\ UNCHANGED <<original_handler, loginVars, collectVars, histVars>>
    /\ UNCHANGED <<parseVars, exportVars>>


(***************************************************************************)
(* The article-fetch phase and fetch_article_content                       *)
(***************************************************************************)
fetchFrame ==
    /\ procFrame
    /\ UNCHANGED <<exitStatus, exitCause, handler, original_handler, loginVars>>
    /\ UNCHANGED <<collectCalls, seen_ids, stop_scrolling, scroll_idx,
                   no_new_count, new_this_round, articles, tweet, main_bookmarks>>
    /\ UNCHANGED <<histVars, parseVars, exportVars>>

\* Every record taken for an article
ArticleIndices_All(bs) == [i \in 1..Len(bs) |-> i]

\* [b for b in bookmarks if b["article_url"]], as positions in bookmarks
ArticleIndices(bs) ==
    LET F[i \in 0..Len(bs)] ==
            IF i = 0 THEN << >>
            ELSE IF bs[i].article_url # "" THEN Append(F[i - 1], i) ELSE F[i - 1]
    IN  F[Len(bs)]

\* Lines 276-279
FetchStart ==
    /\ pc = "fetch_start" /\ Running
    /\ IF ~args.no_articles /\ ~stop_scrolling
       THEN /\ article_bookmarks' = ArticleIndices(bookmarks)
            /\ pc' = "fetch_loop"
       ELSE /\ pc' = "finally"
            /\ UNCHANGED article_bookmarks
    /\ UNCHANGED <<bookmarks, fetch_text, ap_open, open_views>>
    /\ fetchFrame

\* Line 280: for b in article_bookmarks
FetchLoop ==
    /\ pc = "fetch_loop" /\ Running
    /\ pc' = IF article_bookmarks = << >> THEN "finally" ELSE "fetch_new_page"
    /\ UNCHANGED <<bookmarks, article_bookmarks, fetch_text, ap_open, open_views>>
    /\ fetchFrame

\* fetch_article_content returns r; lines 281-282 store it and pace
FetchDone(r) ==
    /\ bookmarks' = [bookmarks EXCEPT ![Head(article_bookmarks)].article_text = r]
    /\ article_bookmarks' = Tail(article_bookmarks)
    /\ fetch_text' = ""
    /\ ap_open' = FALSE
    /\ pc' = "fetch_loop"

\* Line 169: ap = page.context.new_page()
FetchNewPage ==
    /\ pc = "fetch_new_page" /\ Running
    /\ \/ /\ ap_open' = TRUE
          /\ open_views' = open_views + 1
          /\ pc' = "fetch_goto"
          /\ UNCHANGED <<bookmarks, article_bookmarks, fetch_text>>
       \/ /\ FetchDone("")                      \* line 175: no view was opened
          /\ UNCHANGED open_views
    /\ fetchFrame

\* Line 170: ap.goto(article_url, timeout=30_000)
FetchGoto ==
    /\ pc = "fetch_goto" /\ Running
    /\ \/ /\ pc' = "fetch_body"
          /\ UNCHANGED <<bookmarks, article_bookmarks, fetch_text, ap_open>>
       \/ FetchDone("")                         \* line 175: ap stays open
    /\ UNCHANGED open_views
    /\ fetchFrame

\* Lines 171-172: the article body by either selector, or no body
FetchBody ==
    /\ pc = "fetch_body" /\ Running
    /\ \/ /\ \E body \in Bodies : fetch_text' = body
          /\ pc' = "fetch_close"
          /\ UNCHANGED <<bookmarks, article_bookmarks, ap_open>>
       \/ FetchDone("")                         \* line 175: ap stays open
    /\ UNCHANGED open_views
    /\ fetchFrame

\* Lines 173-174: ap.close(); return text.strip()
FetchClose ==
    /\ pc = "fetch_close" /\ Running
    /\ \/ /\ open_views' = open_views - 1
          /\ FetchDone(Strip(fetch_text))
       \/ /\ FetchDone("")                      \* line 175: close raised
          /\ UNCHANGED open_views
    /\ fetchFrame

\* Line 285: finally
Finally ==
    /\ pc = "finally" /\ Running
    /\ handler' = original_handler
    /\ pc' = "collect_return"
    /\ procFrame
    /\ UNCHANGED <<exitStatus, exitCause, original_handler>>
    /\ UNCHANGED <<loginVars, collectVars, histVars, parseVars, exportVars>>

\* Line 288 (or 205, 218, 222): the list reaches main's bookmarks
CollectReturn ==
    /\ pc = "collect_return" /\ Running
    /\ main_bookmarks' = bookmarks
    /\ first_empty' = IF collectCalls = 1 THEN bookmarks = << >> ELSE first_empty
    /\ pc' = IF collectCalls = 1 THEN "step3" ELSE "close"
    /\ procFrame
    /\ UNCHANGED <<exitStatus, exitCause, handler, original_handler, loginVars>>
    /\ UNCHANGED <<collectCalls, bookmarks, seen_ids, stop_scrolling, scroll_idx,
                   no_new_count, new_this_round, articles, tweet,
                   article_bookmarks, fetch_text, ap_open, open_views>>
    /\ UNCHANGED <<expired, last_new_pass, completed, cancel_pc, cancel_prior,
                   firstNoUrl, skipped, loop_exit>>
    /\ UNCHANGED <<parseVars, exportVars>>

(***************************************************************************)
(* Spec: one run of main                                                   *)
(***************************************************************************)
ParseIdle ==
    /\ p_pc = "idle" /\ art = << >> /\ raw_urls = {} /\ article_url = ""
    /\ hrefs = << >> /\ parsed = << >>

ExportIdle ==
    /\ e_pc = "idle" /\ e_bookmarks = << >> /\ resolver = << >> /\ all_tco = {}
    /\ futures = {}
    /\ mapping = << >> /\ url_map = << >> /\ csv_rows = << >> /\ jsonl_rows = << >>

MainIdle ==
    /\ pc = "idle"
    /\ args = [headless |-> FALSE, save_auth_only |-> FALSE,
               no_articles |-> FALSE, max_scrolls |-> 0]
    /\ feed = {}
    /\ has_session = FALSE
    /\ exitStatus = -1
    /\ exitCause = "none"
    /\ handler = "default"
    /\ original_handler = "default"
    /\ signals = 0
    /\ session_saved = FALSE
    /\ loginSite = 0
    /\ loginCalls = 0
    /\ stop_flag = FALSE
    /\ logged_in = FALSE
    /\ ok = "unset"
    /\ login_failed = FALSE
    /\ urls = {}
    /\ detected = "no"
    /\ collectCalls = 0
    /\ bookmarks = << >>
    /\ seen_ids = {}
    /\ stop_scrolling = FALSE
    /\ scroll_idx = 0
    /\ no_new_count = 0
    /\ new_this_round = 0
    /\ articles = 0
    /\ tweet = NoTweet
    /\ article_bookmarks = << >>
    /\ fetch_text = ""
    /\ ap_open = FALSE
    /\ open_views = 0
    /\ main_bookmarks = "unset"
    /\ expired = {}
    /\ first_empty = FALSE
    /\ last_new_pass = 0
    /\ completed = 0
    /\ cancel_pc = "none"
    /\ cancel_prior = << >>
    /\ firstNoUrl = << >>
    /\ skipped = FALSE
    /\ loop_exit = "none"

Init ==
    /\ pc = "main"
    /\ args \in [headless : BOOLEAN, save_auth_only : BOOLEAN,
                 no_articles : BOOLEAN, max_scrolls : ScrollChoices]
    /\ feed = SmallFeed
    /\ has_session \in BOOLEAN
    /\ exitStatus = -1
    /\ exitCause = "none"
    /\ handler = "default"
    /\ original_handler = "default"
    /\ signals = 0
    /\ session_saved = FALSE
    /\ loginSite = 0
    /\ loginCalls = 0
    /\ stop_flag = FALSE
    /\ logged_in = FALSE
    /\ ok = "unset"
    /\ login_failed = FALSE
    /\ urls = {}
    /\ detected = "no"
    /\ collectCalls = 0
    /\ bookmarks = << >>
    /\ seen_ids = {}
    /\ stop_scrolling = FALSE
    /\ scroll_idx = 0
    /\ no_new_count = 0
    /\ new_this_round = 0
    /\ articles = 0
    /\ tweet = NoTweet
    /\ article_bookmarks = << >>
    /\ fetch_text = ""
    /\ ap_open = FALSE
    /\ open_views = 0
    /\ main_bookmarks = "unset"
    /\ expired = {}
    /\ first_empty = FALSE
    /\ last_new_pass = 0
    /\ completed = 0
    /\ cancel_pc = "none"
    /\ cancel_prior = << >>
    /\ firstNoUrl = << >>
    /\ skipped = FALSE
    /\ loop_exit = "none"
    /\ ParseIdle
    /\ ExportIdle

Next ==
    \/ Sigint
    \/ Main \/ AfterLogin1 \/ Step3 \/ AfterLogin3 \/ Close \/ SaveOutput
    \/ LoginGoto \/ LoginWhile \/ LoginPoll \/ LoginSave \/ LoginFinally \/ LoginPartial
    \/ LoginReturn
    \/ Nav \/ Wait \/ LoopTop \/ Query \/ ForArt \/ Dedup \/ PassEnd \/ Scroll
    \/ FetchStart \/ FetchLoop \/ FetchNewPage \/ FetchGoto \/ FetchBody
    \/ FetchClose \/ Finally \/ CollectReturn

Spec == Init /\ [][Next]_vars


(***************************************************************************)
(* SpecCollect: one call of collect_bookmarks, as main makes it at line    *)
(* 450, on a feed of every kind of post.                                   *)
(***************************************************************************)
InitCollect ==
    /\ pc = "nav"
    /\ args \in [headless : {FALSE}, save_auth_only : {FALSE},
                 no_articles : BOOLEAN, max_scrolls : ScrollChoices]
    /\ feed = Tweets
    /\ has_session = TRUE
    /\ exitStatus = -1
    /\ exitCause = "none"
    /\ handler = "default"
    /\ original_handler = "default"
    /\ signals = 0
    /\ session_saved = FALSE
    /\ loginSite = 0
    /\ loginCalls = 0
    /\ stop_flag = FALSE
    /\ logged_in = FALSE
    /\ ok = "unset"
    /\ login_failed = FALSE
    /\ urls = {}
    /\ detected = "no"
    /\ collectCalls = 1
    /\ bookmarks = << >>
    /\ seen_ids = {}
    /\ stop_scrolling = FALSE
    /\ scroll_idx = 0
    /\ no_new_count = 0
    /\ new_this_round = 0
    /\ articles = 0
    /\ tweet = NoTweet
    /\ article_bookmarks = << >>
    /\ fetch_text = ""
    /\ ap_open = FALSE
    /\ open_views = 0
    /\ main_bookmarks = "unset"
    /\ expired = {}
    /\ first_empty = FALSE
    /\ last_new_pass = 0
    /\ completed = 0
    /\ cancel_pc = "none"
    /\ cancel_prior = << >>
    /\ firstNoUrl = << >>
    /\ skipped = FALSE
    /\ loop_exit = "none"
    /\ ParseIdle
    /\ ExportIdle

NextCollect ==
    \/ Sigint
    \/ Nav \/ Wait \/ LoopTop \/ Query \/ ForArt \/ Dedup \/ PassEnd \/ Scroll
    \/ FetchStart \/ FetchLoop \/ FetchNewPage \/ FetchGoto \/ FetchBody
    \/ FetchClose \/ Finally \/ CollectReturn

SpecCollect == InitCollect /\ [][NextCollect]_vars


(***************************************************************************)
(* Properties of the scroll loop (SpecCollect)                             *)
(***************************************************************************)
\* A collected record, as _parse_tweet returned it
AsParsed(b) == [b EXCEPT !.article_text = ""]

\* Positions in bs of the records without tweet_url whose text starts with p
NoUrlRecords(bs, p) ==
    {i \in 1..Len(bs) : bs[i].tweet_url = "" /\ Slice(bs[i].text, 80) = p}

\* C1: at every point of the scroll loop, and in the list main receives, no
\* two records carry the same non-empty tweet_url.
C1_UniqueTweetUrl ==
    /\ \A i, j \in 1..Len(bookmarks) :
          (i # j /\ bookmarks[i].tweet_url # "")
              => bookmarks[i].tweet_url # bookmarks[j].tweet_url
    /\ main_bookmarks # "unset" =>
          \A i, j \in 1..Len(main_bookmarks) :
             (i # j /\ main_bookmarks[i].tweet_url # "")
                 => main_bookmarks[i].tweet_url # main_bookmarks[j].tweet_url

\* A later pass has just shown, under a permalink already collected, a post
\* with another text, and line 255 skipped it.
C1_Witness ==
    /\ pc = "for_art" /\ scroll_idx >= 2
    /\ tweet # NoTweet /\ tweet.tweet_url # ""
    /\ \E i \in 1..Len(bookmarks) :
          bookmarks[i].tweet_url = tweet.tweet_url /\ bookmarks[i].text # tweet.text
    /\ \A i \in 1..Len(bookmarks) : bookmarks[i] # tweet

\* C2 as stated: when lines 253-258 handle a parsed item without tweet_url
\* whose first 80 characters of text an earlier such item had, the two have
\* yielded exactly one record, the first one met.
C2_ExactlyOnePerPrefix ==
    [][(/\ pc = "dedup" /\ pc' = "for_art"
        /\ tweet.tweet_url = ""
        /\ Slice(tweet.text, 80) \in DOMAIN firstNoUrl)
          => LET p == Slice(tweet.text, 80) IN
             /\ Cardinality(NoUrlRecords(bookmarks', p)) = 1
             /\ \A i \in NoUrlRecords(bookmarks', p) :
                   AsParsed(bookmarks'[i]) = firstNoUrl[p]]_vars

\* C2 as amended: such items never yield two records; the one record is the
\* first item met; and there is none only when the 80-character prefix is
\* the tweet_url of a collected record, whose key it shares in seen_ids.
C2_AtMostOnePerPrefix ==
    \A p \in DOMAIN firstNoUrl :
        /\ Cardinality(NoUrlRecords(bookmarks, p)) <= 1
        /\ \A i \in NoUrlRecords(bookmarks, p) :
              AsParsed(bookmarks[i]) = firstNoUrl[p]
        /\ NoUrlRecords(bookmarks, p) = {} =>
              \E i \in 1..Len(bookmarks) : bookmarks[i].tweet_url = p
        /\ p \in seen_ids

\* Two posts without permalink, equal in their first 80 characters and
\* different after them, have been parsed; the second was skipped.
C2_Witness ==
    /\ pc = "for_art"
    /\ Prefix80 \in DOMAIN firstNoUrl /\ firstNoUrl[Prefix80] # tweet
    /\ tweet # NoTweet /\ tweet.tweet_url = "" /\ Len(tweet.text) > 80
    /\ \E i \in 1..Len(bookmarks) :
          /\ bookmarks[i].tweet_url = ""
          /\ bookmarks[i].text # tweet.text
          /\ Slice(bookmarks[i].text, 80) = Slice(tweet.text, 80)
    /\ \A i \in 1..Len(bookmarks) : bookmarks[i] # tweet

\* C3 as stated: a parsed item with neither tweet_url nor text is never
\* taken as seen before; the step of lines 253-258 appends every such item.
C3_NeitherAlwaysAppended ==
    [][(pc = "dedup" /\ pc' = "for_art" /\ tweet.tweet_url = "" /\ tweet.text = "")
          => bookmarks' = Append(bookmarks, tweet)]_vars

\* C4: the scroll loop ends for exhaustion exactly at the fifth stale pass
\* after the last pass with a new item (pass k + 5); it ends on the range
\* only when max_scrolls < k + 5; the counter is the number of finished
\* passes since pass k, so a pass with a new item puts it back to 0.
C4_ExhaustionAtKPlus5 ==
    /\ loop_exit = "stale" =>
          /\ no_new_count = 5
          /\ scroll_idx = last_new_pass + 5
    /\ loop_exit = "range" =>
          /\ scroll_idx = args.max_scrolls
          /\ args.max_scrolls < last_new_pass + 5
    /\ pc \in {"scroll", "loop_top"} =>
          /\ no_new_count = scroll_idx - last_new_pass
          /\ no_new_count < 5
    /\ pc \in {"query", "for_art", "dedup", "pass_end"} =>
          /\ no_new_count = scroll_idx - 1 - last_new_pass
          /\ no_new_count < 5

\* Pass k >= 1 brought a new item, no later pass did, nothing was cancelled
\* and max_scrolls >= k + 5: the loop has ended for exhaustion.
C4_Witness ==
    /\ loop_exit = "stale"
    /\ last_new_pass >= 1
    /\ args.max_scrolls >= last_new_pass + 5
    /\ ~stop_scrolling
    /\ bookmarks # << >>

\* The list collect_bookmarks returns after a cancelled scroll loop
WellFormed(bs) ==
    /\ \A i \in 1..Len(bs) : bs[i] \in feed
    /\ \A i, j \in 1..Len(bs) : i # j => Tid(bs[i]) # Tid(bs[j])

Cancelled == pc = "collect_return" /\ cancel_pc = "scroll"

\* C5 as stated: one SIGINT during a scroll pass makes collect_bookmarks
\* return a non-empty well-formed list that starts with the records of the
\* passes finished before.
C5_CancelReturnsNonEmpty ==
    Cancelled =>
        /\ bookmarks # << >>
        /\ WellFormed(bookmarks)
        /\ IsPrefix(cancel_prior, bookmarks)

\* C5 as amended: the list may be empty; it is well formed, starts with the
\* records of the passes finished before the signal, and the loop ended at
\* the next check of the flag.
C5_CancelReturnsPartial ==
    Cancelled =>
        /\ WellFormed(bookmarks)
        /\ IsPrefix(cancel_prior, bookmarks)
        /\ loop_exit \in {"cancel", "stale", "range"}
        /\ exitStatus = -1

\* A SIGINT arrived in a pass after one that collected records, and
\* collect_bookmarks is returning them.
C5_Witness ==
    /\ Cancelled
    /\ loop_exit = "cancel"
    /\ cancel_prior # << >>
    /\ Len(bookmarks) > Len(cancel_prior)


(***************************************************************************)
(* Properties of main (Spec)                                               *)
(***************************************************************************)
\* main ended by its own sys.exit or by returning, not by a signal or an
\* uncaught exception
Ended == pc = "exited" /\ exitCause \in {"sys.exit", "return"}

\* Calls of interactive_login made by step 3 of main
ReLogins ==
    IF loginSite = 3
    THEN loginCalls - (IF need_login \/ args.save_auth_only THEN 1 ELSE 0)
    ELSE 0

\* C6 as stated: the exit status is non-zero when an interactive login
\* failed or was cancelled, that of step 3 included, and when --headless is
\* given without a stored session; it is zero in every other run.  (Read in
\* the code's favour: a --save-auth-only run is a login run, and runs ended
\* by a signal or an uncaught exception are left out.)
C6_ExitStatus ==
    Ended =>
        (exitStatus # 0 <=>
            \/ login_failed
            \/ args.headless /\ ~has_session /\ ~args.save_auth_only)

\* C7 as stated: a login wall met in headless mode ends the process with a
\* non-zero status, without re-login or second collection; met in
\* interactive mode it leads to exactly one re-login.
C7_ExpiredSession ==
    (Ended /\ expired # {}) =>
        IF args.headless
        THEN exitStatus # 0 /\ ReLogins = 0 /\ collectCalls = 1
        ELSE ReLogins = 1

\* C8: collect_bookmarks is called at most twice; a second call follows an
\* empty first result, in a run that is not headless, after a successful
\* login of step 3; after it main only closes, saves and ends.
C8_CollectAtMostTwice ==
    /\ collectCalls <= 2
    /\ collectCalls = 2 =>
          /\ first_empty
          /\ ~args.headless
          /\ ReLogins = 1 /\ loginSite = 3 /\ ok = TRUE
          /\ pc \in CollectPcs \cup {"close", "save", "exited"}
    /\ ReLogins \in {0, 1}
    /\ ReLogins = 1 => collectCalls >= 1 /\ first_empty /\ ~args.headless

\* The first scrape came back empty, the login of step 3 succeeded, the
\* second scrape collected records and main has saved them.
C8_Witness ==
    /\ collectCalls = 2
    /\ pc = "exited" /\ exitCause = "return"
    /\ main_bookmarks # "unset" /\ main_bookmarks # << >>


(***************************************************************************)
(* SpecExport: _build_rows with expand_urls_parallel and expand_tco_url    *)
(***************************************************************************)
\* The links of the records, in the order sorted() gives them
LinkPool == << "https://example.com/page",
               "https://pinterest.co/pin/9",
               "https://t.co/abc123",
               "https://t.co/xyz789" >>

\* resp.url when requests.head follows the redirects of u
Redirect(u) ==
    CASE u = "https://t.co/abc123"        -> "https://example.com/page"
      [] u = "https://t.co/xyz789"        -> "https://blog.example.org/post?id=7"
      [] u = "https://pinterest.co/pin/9" -> "https://www.pinterest.com/pin/9/"
      [] OTHER                            -> u

RAISE == "<requests.RequestException>"

\* urls_raw of a record: sorted(raw_urls), a sorted list without repetition
SortedLists ==
    LET n == Len(LinkPool)
        Pick(S) == LET F[i \in 0..n] ==
                           IF i = 0 THEN << >>
                           ELSE IF i \in S THEN Append(F[i - 1], LinkPool[i])
                           ELSE F[i - 1]
                   IN  F[n]
    IN  {Pick(S) : S \in SUBSET (1..n)}

ExportRecord(links, k) ==
    [tweet_url |-> "https://x.com/ann/status/" \o ToString(k), urls_raw |-> links]

\* Lines 68, 347: the test for a shortened link
IsTco(u) == Contains("t.co/", u)

\* A lookup that gives nothing back when it fails
expand_tco_url_EmptyOnError(short_url) ==
    IF resolver[short_url] = RAISE THEN "" ELSE resolver[short_url]

\* Lines 56-64
expand_tco_url(short_url) ==
    IF resolver[short_url] = RAISE THEN short_url ELSE resolver[short_url]

\* dict.get(u, u)
Get(map, u) == IF u \in DOMAIN map THEN map[u] ELSE u

\* " | ".join(xs)
RECURSIVE Join(_)
Join(xs) ==
    IF xs = << >> THEN ""
    ELSE IF Len(xs) = 1 THEN xs[1]
    ELSE xs[1] \o " | " \o Join(Tail(xs))

exportFrame == UNCHANGED <<mainVars, parseVars, e_bookmarks, resolver>>

\* Lines 347-349: the shortened links of all records, each once, are handed
\* to expand_urls_parallel
BuildStart ==
    /\ e_pc = "start"
    /\ all_tco' = {u \in UNION {{b.urls_raw[i] : i \in 1..Len(b.urls_raw)} :
                                b \in {e_bookmarks[k] : k \in 1..Len(e_bookmarks)}} :
                   IsTco(u)}
    /\ e_pc' = "expand"
    /\ UNCHANGED <<futures, mapping, url_map, csv_rows, jsonl_rows>>
    /\ exportFrame

\* Lines 68-73: the shortened links among the links given are submitted to the pool.
\* The pool has 10 workers and LinkPool fewer links, so submit starts a
\* thread for every lookup at once.
ExpandStart ==
    /\ e_pc = "expand"
    /\ LET tco_urls == {u \in all_tco : IsTco(u)}
       IN  IF tco_urls = {}
           THEN /\ url_map' = << >>             \* line 70: return {}
                /\ e_pc' = "rows"
                /\ UNCHANGED <<futures, mapping>>
           ELSE /\ futures' = [u \in tco_urls |-> [state |-> "running", result |-> ""]]
                /\ mapping' = << >>
                /\ e_pc' = "pool"
                /\ UNCHANGED url_map
    /\ UNCHANGED <<all_tco, csv_rows, jsonl_rows>>
    /\ exportFrame

\* The pool thread returns from expand_tco_url and completes its future
WorkerFinish ==
    /\ e_pc = "pool"
    /\ \E u \in DOMAIN futures :
          /\ futures[u].state = "running"
          /\ futures' = [futures EXCEPT ![u] =
                            [state |-> "done", result |-> expand_tco_url(u)]]
    /\ UNCHANGED <<all_tco, e_pc, mapping, url_map, csv_rows, jsonl_rows>>
    /\ exportFrame

\* Lines 74-75: as_completed hands a completed future to the calling thread
AsCompleted ==
    /\ e_pc = "pool"
    /\ \E u \in DOMAIN futures :
          /\ futures[u].state = "done"
          /\ futures' = [futures EXCEPT ![u].state = "yielded"]
          /\ mapping' = [k \in DOMAIN mapping \cup {u} |->
                            IF k = u THEN futures[u].result ELSE mapping[k]]
    /\ UNCHANGED <<all_tco, e_pc, url_map, csv_rows, jsonl_rows>>
    /\ exportFrame

\* A loop that ends with the first future handed over
Drained_FirstCompleted == \E u \in DOMAIN futures : futures[u].state = "yielded"

\* Line 74: as_completed(futures) has handed over every submitted future
Drained == \A u \in DOMAIN futures : futures[u].state = "yielded"

\* Line 76: return mapping, once every future was handed over
PoolReturn ==
    /\ e_pc = "pool"
    /\ Drained
    /\ url_map' = mapping
    /\ e_pc' = "rows"
    /\ UNCHANGED <<all_tco, futures, mapping, csv_rows, jsonl_rows>>
    /\ exportFrame

\* Line 354
Expanded(b) == [i \in 1..Len(b.urls_raw) |-> Get(url_map, b.urls_raw[i])]

\* Lines 352-364
BuildRows ==
    /\ e_pc = "rows"
    /\ jsonl_rows' = [k \in 1..Len(e_bookmarks) |->
                         [tweet_url |-> e_bookmarks[k].tweet_url,
                          urls_expanded |-> Expanded(e_bookmarks[k])]]
    /\ csv_rows' = [k \in 1..Len(e_bookmarks) |->
                       [tweet_url |-> e_bookmarks[k].tweet_url,
                        urls_expanded |-> Join(Expanded(e_bookmarks[k]))]]
    /\ e_pc' = "done"
    /\ UNCHANGED <<all_tco, futures, mapping, url_map>>
    /\ exportFrame

InitExport ==
    /\ MainIdle
    /\ ParseIdle
    /\ e_pc = "start"
    /\ \E n \in 0..MaxRecords :
          \E links \in [1..n -> SortedLists] :
             e_bookmarks = [k \in 1..n |-> ExportRecord(links[k], k)]
    /\ \E fails \in SUBSET {LinkPool[i] : i \in 1..Len(LinkPool)} :
          resolver = [u \in {LinkPool[i] : i \in 1..Len(LinkPool)} |->
                         IF u \in fails THEN RAISE ELSE Redirect(u)]
    /\ all_tco = {}
    /\ futures = << >>
    /\ mapping = << >>
    /\ url_map = << >>
    /\ csv_rows = << >>
    /\ jsonl_rows = << >>

NextExport ==
    \/ BuildStart \/ ExpandStart \/ WorkerFinish \/ AsCompleted \/ PoolReturn
    \/ BuildRows

SpecExport == InitExport /\ [][NextExport]_vars

(***************************************************************************)
(* SpecExpand: one call of expand_urls_parallel on any set of links        *)
(***************************************************************************)
InitExpand ==
    /\ MainIdle
    /\ ParseIdle
    /\ e_pc = "expand"
    /\ e_bookmarks = << >>
    /\ \E fails \in SUBSET {LinkPool[i] : i \in 1..Len(LinkPool)} :
          resolver = [u \in {LinkPool[i] : i \in 1..Len(LinkPool)} |->
                         IF u \in fails THEN RAISE ELSE Redirect(u)]
    /\ all_tco \in SUBSET {LinkPool[i] : i \in 1..Len(LinkPool)}
    /\ futures = << >>
    /\ mapping = << >>
    /\ url_map = << >>
    /\ csv_rows = << >>
    /\ jsonl_rows = << >>

NextExpand == ExpandStart \/ WorkerFinish \/ AsCompleted \/ PoolReturn

SpecExpand == InitExpand /\ [][NextExpand]_vars


(***************************************************************************)
(* SpecParse: _parse_tweet with is_article_url                             *)
(***************************************************************************)
\* The printable ASCII characters in code order, from the space to the
\* underscore and from a to the tilde (the grave accent between them cannot
\* be written in a string)
AsciiLow == " !\"#$%&'()*+,-./0123456789:;<=>?@ABCDEFGHIJKLMNOPQRSTUVWXYZ[\\]^_"

AsciiHigh == "abcdefghijklmnopqrstuvwxyz{|}~"

Index(c, s) == IF \E i \in 1..Len(s) : SubSeq(s, i, i) = c
               THEN CHOOSE i \in 1..Len(s) : SubSeq(s, i, i) = c
               ELSE 0

\* Python: ord(c) - 31
Ord(c) == IF Index(c, AsciiLow) # 0 THEN Index(c, AsciiLow)
          ELSE IF Index(c, AsciiHigh) # 0 THEN Len(AsciiLow) + 1 + Index(c, AsciiHigh)
          ELSE 0

Rest(s, i) == IF i > Len(s) THEN "" ELSE SubSeq(s, i, Len(s))

\* Python: a < b, on strings
RECURSIVE StrLess(_, _)
StrLess(a, b) ==
    IF b = "" THEN FALSE
    ELSE IF a = "" THEN TRUE
    ELSE IF SubSeq(a, 1, 1) = SubSeq(b, 1, 1) THEN StrLess(Rest(a, 2), Rest(b, 2))
    ELSE Ord(SubSeq(a, 1, 1)) < Ord(SubSeq(b, 1, 1))

\* Python: sorted(S), on a set of strings
RECURSIVE Sorted(_)
Sorted(S) ==
    IF S = {} THEN << >>
    ELSE LET least == CHOOSE x \in S : \A y \in S \ {x} : StrLess(x, y)
         IN  <<least>> \o Sorted(S \ {least})

\* Python: s.lower()
RECURSIVE Lower(_)
Lower(s) ==
    IF s = "" THEN ""
    ELSE LET c == SubSeq(s, 1, 1)
             o == Ord(c)
             k == o - Ord("A") + 1
         IN  (IF Ord("A") <= o /\ o <= Ord("Z")
              THEN SubSeq(AsciiHigh, k, k) ELSE c) \o Lower(Rest(s, 2))

\* Python: s.replace(old, new) for a one-character old
RECURSIVE Replace(_, _, _)
Replace(s, old, new) ==
    IF s = "" THEN ""
    ELSE (IF SubSeq(s, 1, 1) = old THEN new ELSE SubSeq(s, 1, 1))
         \o Replace(Rest(s, 2), old, new)

\* Python: s.strip(c) for a one-character c
RECURSIVE StripChar(_, _)
StripChar(s, c) ==
    IF s = "" THEN ""
    ELSE IF SubSeq(s, 1, 1) = c THEN StripChar(Rest(s, 2), c)
    ELSE IF SubSeq(s, Len(s), Len(s)) = c THEN StripChar(SubSeq(s, 1, Len(s) - 1), c)
    ELSE s

\* The length of the longest prefix of s without a character of stop
RECURSIVE RunNotIn(_, _)
RunNotIn(s, stop) ==
    IF s = "" \/ SubSeq(s, 1, 1) \in stop THEN 0 ELSE 1 + RunNotIn(Rest(s, 2), stop)

\* The length of the longest prefix of s made of characters of allowed
RECURSIVE RunIn(_, _)
RunIn(s, allowed) ==
    IF s = "" \/ SubSeq(s, 1, 1) \notin allowed THEN 0 ELSE 1 + RunIn(Rest(s, 2), allowed)

\* Index of the first character of s that is in stop, Len(s) + 1 if none
Upto(s, stop) == 1 + RunNotIn(s, stop)

\* urllib.parse.urlparse(url), its netloc and path
urlparse(url) ==
    LET colon == Upto(url, {":"})
        slashes == colon <= Len(url) /\ IsPrefix("//", Rest(url, colon + 1))
        rest == IF slashes THEN Rest(url, colon + 3)
                ELSE IF colon <= Len(url) THEN Rest(url, colon + 1) ELSE url
        n == IF slashes THEN Upto(rest, {"/", "?", "#"}) ELSE 1
        tail == Rest(rest, n)
    IN  [netloc |-> SubSeq(rest, 1, n - 1),
         path |-> SubSeq(tail, 1, Upto(tail, {"?", "#"}) - 1)]

\* Lines 79-81
is_article_url(url) ==
    LET parsed_url == urlparse(url)
    IN  /\ Contains("/articles/", parsed_url.path)
        /\ \/ EndsWith(Lower(parsed_url.netloc), "x.com")
           \/ EndsWith(Lower(parsed_url.netloc), "twitter.com")

\* The characters the link pattern of line 303 stops at: \s " ' < > )
LinkStop == {" ", "\t", "\n", "\r", "\"", "'", "<", ">", ")"}

\* Line 303: re.findall(r"https?://[^\s\"'<>\)]+", text), as a set
RECURSIVE FindLinks(_)
FindLinks(text) ==
    IF text = "" THEN {}
    ELSE LET scheme == IF IsPrefix("https://", text) THEN 8
                       ELSE IF IsPrefix("http://", text) THEN 7 ELSE 0
             n == RunNotIn(Rest(text, scheme + 1), LinkStop)
         IN  IF scheme > 0 /\ n > 0
             THEN {SubSeq(text, 1, scheme + n)} \cup FindLinks(Rest(text, scheme + n + 1))
             ELSE FindLinks(Rest(text, 2))

\* The characters of \w
WordChars ==
    LET Chars(str) == {SubSeq(str, i, i) : i \in 1..Len(str)}
    IN  Chars("0123456789_ABCDEFGHIJKLMNOPQRSTUVWXYZabcdefghijklmnopqrstuvwxyz")

\* Line 321: re.sub(r'[&?]name=\w+', '', src)
RECURSIVE SubName(_)
SubName(src) ==
    IF src = "" THEN ""
    ELSE LET w == RunIn(Rest(src, 7), WordChars)
         IN  IF (IsPrefix("&name=", src) \/ IsPrefix("?name=", src)) /\ w > 0
             THEN SubName(Rest(src, 7 + w))
             ELSE SubSeq(src, 1, 1) \o SubName(Rest(src, 2))

\* query_selector found no element
NoElement == "<None>"

\* What an article element can hold
Authors == {
    [handle_el |-> NoElement, name_el |-> NoElement],
    [handle_el |-> "/ann", name_el |-> "Ann"] }

Times == {
    [present |-> FALSE, datetime |-> "", href |-> ""],
    [present |-> TRUE, datetime |-> "2024-05-01T10:00:00.000Z", href |-> ""],
    [present |-> TRUE, datetime |-> "2024-05-01T10:00:00.000Z", href |-> U1] }

Texts == {
    NoElement,
    " gm\nall ",
    "Read https://t.co/abc123 (via http://example.com/a)",
    "My article: https://x.com/i/articles/7",
    "docs at <https://example.com/page> and https://" }

HrefPool == {
    ART,
    "https://Twitter.com/i/articles/8?s=20",
    "https://t.co/abc123",
    "https://example.com/page",
    "https://x.com/ann/status/1",
    "https://x.com/hashtag/articles" }

Images == {
    << >>,
    << "https://pbs.twimg.com/media/F1.jpg?format=jpg&name=small" >>,
    << "https://abs.twimg.com/emoji/v2/1f600.svg",
       "https://pbs.twimg.com/media/F2?name=900x900&format=png" >> }

parseFrame == UNCHANGED <<mainVars, exportVars, art>>

\* Lines 292-304
ParseFields ==
    /\ p_pc = "start"
    /\ raw_urls' = FindLinks(IF art.text_el = NoElement THEN "" ELSE art.text_el)
    /\ article_url' = ""
    /\ hrefs' = art.anchors
    /\ p_pc' = "anchors"
    /\ UNCHANGED parsed
    /\ parseFrame

\* Lines 306-312, for one anchor
ParseAnchor ==
    /\ p_pc = "anchors"
    /\ hrefs # << >>
    /\ LET href == Head(hrefs)
       IN  IF is_article_url(href)
           THEN /\ article_url' = (IF article_url = "" THEN href ELSE article_url)
                /\ UNCHANGED raw_urls
           ELSE IF \/ Contains("t.co", href)
                   \/ Lower(urlparse(href).netloc) \notin {"x.com", "twitter.com"}
           THEN /\ raw_urls' = raw_urls \cup {href}
                /\ UNCHANGED article_url
           ELSE UNCHANGED <<raw_urls, article_url>>
    /\ hrefs' = Tail(hrefs)
    /\ UNCHANGED <<p_pc, parsed>>
    /\ parseFrame

\* Lines 316-322
ImageUrls(srcs) ==
    LET kept == SelectSeq(srcs, LAMBDA src : src # "" /\ Contains("pbs.twimg.com/media", src))
    IN  [i \in 1..Len(kept) |-> SubName(kept[i]) \o "?name=orig"]

\* Lines 292-301 and 314-333
ParseReturn ==
    /\ p_pc = "anchors"
    /\ hrefs = << >>
    /\ LET handle == IF art.handle_el = NoElement THEN ""
                     ELSE StripChar(art.handle_el, "/")
           name == IF art.name_el = NoElement THEN "" ELSE art.name_el
           text == IF art.text_el = NoElement THEN "" ELSE art.text_el
       IN  parsed' = [timestamp     |-> IF art.time_el.present THEN art.time_el.datetime ELSE "",
                      author_name   |-> name,
                      author_handle |-> IF handle # "" THEN "@" \o handle ELSE "",
                      text          |-> Strip(Replace(text, "\n", " ")),
                      tweet_url     |-> IF art.time_el.present THEN art.time_el.href ELSE "",
                      article_url   |-> article_url,
                      article_text  |-> "",
                      image_urls    |-> ImageUrls(art.imgs),
                      urls_raw      |-> Sorted(raw_urls)]
    /\ p_pc' = "done"
    /\ UNCHANGED <<raw_urls, article_url, hrefs>>
    /\ parseFrame

InitParse ==
    /\ MainIdle
    /\ ExportIdle
    /\ p_pc = "start"
    /\ \E author \in Authors, text \in Texts, time \in Times, imgs \in Images,
          n \in 0..MaxAnchors :
          \E anchors \in [1..n -> HrefPool] :
             art = [handle_el |-> author.handle_el, name_el |-> author.name_el,
                    text_el |-> text, time_el |-> time, anchors |-> anchors,
                    imgs |-> imgs]
    /\ raw_urls = {}
    /\ article_url = ""
    /\ hrefs = << >>
    /\ parsed = << >>

NextParse == ParseFields \/ ParseAnchor \/ ParseReturn

SpecParse == InitParse /\ [][NextParse]_vars

(***************************************************************************)
(* Claims about _build_rows, checked under SpecExport                      *)
(***************************************************************************)
\* What position i of urls_expanded has to hold for the link raw: the
\* destination of a shortened link that resolved, the link itself otherwise
Resolved(raw) == IF IsTco(raw) /\ resolver[raw] # RAISE THEN Redirect(raw) ELSE raw

C10_UrlsRawExcludesArticle ==
    p_pc = "done" =>
        \A i \in 1..Len(parsed.urls_raw) : parsed.urls_raw[i] # parsed.article_url


(***************************************************************************)
(* Properties of the article-fetch phase and of cancellation (SpecCollect) *)
(***************************************************************************)
\* fetch_article_content is between its new_page and its return
InFetch == {"fetch_new_page", "fetch_goto", "fetch_body", "fetch_close"}

\* C11 as stated: the view a call of fetch_article_content opened is closed
\* when the call returns, on the success path and on every failure path.
C11_ViewClosedOnReturn ==
    [][(pc \in InFetch /\ pc' = "fetch_loop" /\ ap_open)
          => open_views' = open_views - 1]_vars

\* C12 as stated: at every point of the article-fetch phase at most one
\* auxiliary view is open, whatever fetches succeed or fail.
C12_AtMostOneView ==
    pc \in FetchPcs => open_views <= 1

\* C13 as stated: a first SIGINT, in whatever state collect_bookmarks is,
\* never ends the process; only a second one does.
C13_FirstCancelDrains ==
    (pc = "exited" /\ exitCause \in {"KeyboardInterrupt", "SystemExit"})
        => signals >= 2


\* Line 281 assigns b["article_text"]: fetch_article_content returns
WriteStep == pc \in InFetch /\ pc' = "fetch_loop"

\* What a step may do to the records: keep them, all fields but
\* article_text alike, and write article_text only at line 281, once for a
\* record, for a record with an article_url, after the scroll loop, with
\* article fetching enabled and under the condition notCancelled
RecordsKept(notCancelled) ==
    /\ Len(bookmarks') >= Len(bookmarks)
    /\ \A i \in 1..Len(bookmarks) :
          /\ AsParsed(bookmarks'[i]) = AsParsed(bookmarks[i])
          /\ bookmarks'[i].article_text # bookmarks[i].article_text
                => WriteStep /\ i = Head(article_bookmarks)
    /\ WriteStep =>
          LET i == Head(article_bookmarks) IN
          /\ bookmarks[i].article_url # ""
          /\ bookmarks[i].article_text = ""
          /\ \A k \in 1..Len(article_bookmarks') : article_bookmarks'[k] > i
          /\ loop_exit # "none"
          /\ ~args.no_articles
          /\ notCancelled

ParseFailed ==
    pc = "for_art" /\ articles' = articles - 1 /\ pc' # "dedup"

\* C16: a handle that does not parse is skipped and nothing else: the pass
\* goes on to the next handle with the records, the keys and the count as
\* they were; in a pass with such a handle every parsed item with an unseen
\* key is still appended at the end and counted; the count at the end of the
\* pass is the number of records the pass appended; and the loop goes on to
\* the next pass, or ends for five stale passes, as in any other pass.
C16_ParseFailureSkipsOnly ==
    [][/\ ParseFailed =>
             /\ pc' = "for_art"
             /\ UNCHANGED <<bookmarks, seen_ids, new_this_round, exitStatus>>
       /\ (pc = "dedup" /\ pc' = "for_art" /\ skipped /\ Tid(tweet) \notin seen_ids) =>
             /\ bookmarks' = Append(bookmarks, tweet)
             /\ new_this_round' = new_this_round + 1
       /\ (pc = "pass_end" /\ pc' \notin {"pass_end", "exited"} /\ skipped) =>
             /\ new_this_round = Len(bookmarks) - completed
             /\ UNCHANGED bookmarks
             /\ pc' = IF new_this_round = 0 /\ no_new_count >= 4
                      THEN "fetch_start" ELSE "scroll"]_vars

\* A pass of two handles ends: one did not parse, the other was appended
C16_Witness ==
    /\ pc = "pass_end"
    /\ skipped
    /\ new_this_round = 1
    /\ Len(bookmarks) = completed + 1
    /\ bookmarks[Len(bookmarks)] = tweet


Returned == pc \in {"after_login1", "after_login3"}

\* C17 as stated: no poll that read a location outside the login wall is
\* followed by another poll, and a login in which such a location was read
\* has persisted the session and returns True, in every case.
C17_DetectionReturnsSuccess ==
    /\ pc = "login_poll" => \A u \in urls : _is_login_page(u)
    /\ (Returned /\ detected # "no") => (ok = TRUE /\ session_saved)

\* C17 as amended: on such a poll the persist is attempted at once; the
\* login returns True when the session was persisted and False when
\* storage_state raised.
C17_DetectionReturnsSaved ==
    /\ pc = "login_poll" => \A u \in urls : _is_login_page(u)
    /\ pc = "login_save" =>
          /\ \E u \in urls : ~_is_login_page(u)
          /\ logged_in /\ detected = "seen"
    /\ Returned =>
          /\ detected \in {"no", "saved", "save_failed"}
          /\ detected = "saved" => (ok = TRUE /\ session_saved)
          /\ detected = "save_failed" => ok = FALSE
          /\ detected = "no" => ok = FALSE

\* A poll read one view on the login page and one outside it, the session
\* was persisted and interactive_login is about to return True
C17_Witness ==
    /\ pc = "login_return"
    /\ urls = {LOGIN_URL, HOME_URL}
    /\ detected = "saved"
    /\ logged_in /\ session_saved

\* A SIGINT is delivered in this step
Signalled == signals' # signals

\* _sigint_handler has taken a first SIGINT in the running interactive_login
FinishingUp == pc \in LoginPcs /\ cancel_pc \in {"login_before", "login_after"}

\* interactive_login returns in this step
LoginReturns == pc = "login_return" /\ pc' \in {"after_login1", "after_login3"}

\* What the claim and its amendment share: the first SIGINT taken by
\* _sigint_handler only sets stop_flag; the loop test that follows leaves
\* the loop; after the finally clause the partial persist is attempted when
\* no login was recorded.
FinishUp ==
    /\ (Signalled /\ handler = "login" /\ ~stop_flag) =>
          (stop_flag' /\ pc' = pc /\ exitStatus' = -1)
    /\ (pc = "login_poll" /\ stop_flag /\ pc' \notin {pc, "exited"}) =>
          pc' = "login_finally"
    /\ (pc = "login_finally" /\ pc' \notin {pc, "exited"}) =>
          pc' = IF stop_flag /\ ~logged_in THEN "login_partial" ELSE "login_return"

\* C18 as stated: after a first SIGINT before login is detected the function
\* returns False, and a second SIGINT at any point up to the return ends the
\* process through raise SystemExit(1).
C18_ReturnsFailureForcedExit ==
    [][/\ FinishUp
       /\ (LoginReturns /\ cancel_pc = "login_before") => ok' = FALSE
       /\ (Signalled /\ FinishingUp) =>
             (pc' = "exited" /\ exitCause' = "SystemExit" /\ exitStatus' = 1)]_vars

\* C18 as amended: the function returns False unless the poll that was
\* running when the SIGINT arrived detected the login and persisted the
\* session; a second SIGINT ends the process through raise SystemExit(1)
\* up to the finally clause, and through KeyboardInterrupt after it, the
\* partial persist included.
C18_FinishUpThenExit ==
    [][/\ FinishUp
       /\ (LoginReturns /\ cancel_pc = "login_before") => ok' = (detected = "saved")
       /\ (Signalled /\ FinishingUp) =>
             /\ pc' = "exited"
             /\ IF pc \in LoginTry \cup {"login_finally"}
                THEN exitCause' = "SystemExit" /\ exitStatus' = 1
                ELSE exitCause' = "KeyboardInterrupt" /\ exitStatus' = 130]_vars

\* A SIGINT arrived before any login was detected, the loop stopped, the
\* partial session was persisted and interactive_login is about to return
\* False
C18_Witness ==
    /\ pc = "login_return"
    /\ loginCalls = 1
    /\ cancel_pc = "login_before" /\ stop_flag
    /\ detected = "no" /\ ~logged_in
    /\ session_saved
    /\ handler = "default"

(***************************************************************************)
(* C19: the SIGINT handler after a call                                    *)
(***************************************************************************)
\* Positions of interactive_login and collect_bookmarks at which the handler
\* of the function is the installed one: the try body and its finally clause
Installed == LoginTry \cup {"login_finally"} \cup CollectTry \cup {"finally"}

\* A step that leaves such a position
LeavesInstalled == pc \in Installed /\ pc' \notin Installed

\* A step of collect_bookmarks before line 235 that does not reach it
EarlyPath == pc \in {"nav", "wait"} /\ pc' \notin CollectTry

\* The second SIGINT is taken when the try body has been left and line 149
\* or 285 has not yet put the previous handler back
ForcedInFinally ==
    /\ pc \in {"login_finally", "finally"}
    /\ Signalled
    /\ exitCause' = "SystemExit"

\* C19 as stated: every exit from interactive_login or collect_bookmarks
\* after the handler was installed (return, exhaustion, cancellation,
\* browser exception, forced exit) leaves the handler that was installed
\* before the call, and the early returns of collect_bookmarks never change
\* the handler.
C19_RestoredOnEveryExit ==
    [][/\ LeavesInstalled => handler' = original_handler
       /\ EarlyPath => handler' = handler]_vars

\* C19 as amended: the same, except for a forced exit whose second SIGINT
\* is taken at the finally clause itself, which leaves the handler of the
\* function in place.
C19_RestoredUnlessForcedInFinally ==
    [][/\ LeavesInstalled =>
             handler' = IF ForcedInFinally THEN handler ELSE original_handler
       /\ EarlyPath => handler' = handler]_vars

\* A second SIGINT inside the scroll loop ended the process and the finally
\* clause put the previous handler back on the way out
C19_Witness ==
    /\ pc = "exited" /\ exitCause = "SystemExit"
    /\ stop_scrolling /\ cancel_pc = "scroll"
    /\ collectCalls >= 1
    /\ handler = original_handler /\ handler = "default"

(***************************************************************************)
(* C20: the scroll loop keeps its records and its keys consistent          *)
(***************************************************************************)
\* The keys of the records collected so far
Keys(bs) == {Tid(bs[i]) : i \in 1..Len(bs)}

\* What holds at every position of the scroll loop (lines 240-273)
LoopInv ==
    pc \in ScrollPcs =>
        /\ Len(bookmarks) = Cardinality(seen_ids)
        /\ Keys(bookmarks) \subseteq seen_ids
        /\ no_new_count \in 0..5
        /\ (pc = "loop_top" => no_new_count < 5)
        /\ scroll_idx <= args.max_scrolls

\* A step of the scroll loop leaves the records it found in place
AppendOnly == pc \in ScrollPcs => IsPrefix(bookmarks, bookmarks')

\* C20: in the scroll loop of collect_bookmarks there are as many records
\* as seen keys, the key of every record (tweet_url, else the first 80
\* characters of text) is a seen key, the record sequence only grows at its
\* end, the stale-pass counter is in 0..5 and below 5 at the top of every
\* iteration, and no more than max_scrolls passes are started.
C20_LoopConsistent == []LoopInv /\ [][AppendOnly]_vars

\* The loop has run past its fifth pass with two records under two keys,
\* stale passes counted since the last new one
C20_Witness ==
    /\ pc = "loop_top"
    /\ scroll_idx >= 5
    /\ Len(bookmarks) = 2 /\ Cardinality(seen_ids) = 2
    /\ no_new_count = 4

====
